---- MODULE Spec2Model ----
(***************************************************************************)
(* Model of the client-side preflop action visualizer                      *)
(* (frontend/src/components/Table/PokerTable.jsx) together with the        *)
(* triggerComputerAction collaborator of the useGameState hook.            *)
(*                                                                         *)
(* One TLA+ step is one event-loop task of the browser: the arrival of a   *)
(* game-state snapshot, the firing of the delay timer, or the return of    *)
(* an advance-one-computer-action call.  Each step contains the state      *)
(* updates of the task, the React render they cause and every effect pass  *)
(* that follows until no dependency changes any more.                      *)
(*                                                                         *)
(* The second part models the asynchronous functions of the useGameState   *)
(* hook (frontend/src/hooks/useGameState.js): startNewGame, submitAction,  *)
(* resetGame, the processComputerActions loop they start and               *)
(* triggerComputerAction, one step per resumption of an async function.    *)
(* The last parts model the screens of App (frontend/src/App.jsx) that     *)
(* call the hook, the selections of GameSetup and the seats the table      *)
(* draws.                                                                  *)
(***************************************************************************)
EXTENDS Integers, Sequences, FiniteSets, Bags, TLC

\* ------------------------------------------------------------------ bounds
MaxInFlight == 2    \* advance calls that may be awaiting a response at once
MaxInvocations == 2 \* calls of startNewGame / submitAction / resetGame that
                    \* may be unfinished at once
MaxGames == 2       \* calls of startNewGame / resetGame in one run
MaxTriggers == 1    \* triggerComputerAction calls that may be awaiting at once

\* --------------------------------------------------------- program constants
POSITION_ORDER == <<"BTN", "SB", "BB", "UTG", "MP", "CO">>
PREFLOP_ACTION_ORDER == <<"UTG", "MP", "CO", "BTN", "SB", "BB">>

Positions == {PREFLOP_ACTION_ORDER[i] : i \in 1..6}
NoPosition == "none"            \* null / undefined position
Streets == {"preflop", "flop"}

\* hand_id of a snapshot: 0 stands for an absent (falsy) hand_id, 1 for an
\* identifier issued by the server.  The component only compares the key it
\* derives with the one it so an absent and a present identifier give
\* every pattern of equal and different keys.
HandIds == {0, 1}

\* Number of entries of a snapshot's action_history
HistoryLengths == {0, 1}

\* Array.prototype.indexOf on the two order arrays, 0-based as in the source
IndexOf(order, p) == (CHOOSE i \in 1..Len(order) : order[i] = p) - 1

NextPosition(p) == PREFLOP_ACTION_ORDER[((IndexOf(PREFLOP_ACTION_ORDER, p) + 1) % 6) + 1]

\* --------------------------------------------------------------- snapshots
\* The opponent seat of a game: GameSetup's default 'BB', or the first entry
\* of POSITION_ORDER other than the human's when the human sits there.
DefaultVillain(hero) ==
  IF hero # "BB" THEN "BB"
  ELSE SelectSeq(POSITION_ORDER, LAMBDA p : p # hero)[1]

SeatPairs == {<<h, DefaultVillain(h)>> : h \in Positions}

\* What the server records for a seat's preflop action: the four seats that
\* are not live fold, the human and the opponent stay in.
RecordedAction(p, hero, villain) == IF p \in {hero, villain} THEN "call" ELSE "fold"

\* The chronological action histories of a hand: the actions of the first n
\* seats in first-to-act order.
Histories(hero, villain) ==
  {[i \in 1..n |-> [position |-> PREFLOP_ACTION_ORDER[i],
                    action |-> RecordedAction(PREFLOP_ACTION_ORDER[i], hero, villain)]] :
     n \in HistoryLengths}

\* An absent action_history is the empty one (both leave the history effect
\* without a fold to merge).
Snapshots ==
  UNION {{[present |-> TRUE, human_position |-> hv[1], villain_position |-> hv[2],
           hand_id |-> id, street |-> s, action_history |-> hist] :
            id \in HandIds, s \in Streets, hist \in Histories(hv[1], hv[2])} :
         hv \in SeatPairs}

NoGame ==
  [present |-> FALSE, human_position |-> NoPosition, villain_position |-> NoPosition,
   hand_id |-> 0, street |-> "preflop", action_history |-> <<>>]

VARIABLES
  gameState,        \* the gameState prop of the last render
  visualActionOn,   \* useState: highlighted position or NoPosition
  foldedPositions,  \* useState: set of positions
  preflopDone,      \* useState: sequence-complete flag
  handIdRef,        \* useRef: last observed hand identity
  timers,           \* delay callbacks scheduled with setTimeout and not yet run
  effectTimer,      \* the timer handle held by the progression effect's cleanup
  inflight,         \* bag of timer callbacks awaiting onComputerAction
  heroCanAct,       \* App's useState fed by onHeroCanAct
  ev,               \* history: what the last task did
  stepped,          \* history: positions whose step has run in this hand
  abortRef,            \* useGameState: useRef, the abort flag
  loading,             \* useGameState: useState
  error,               \* useGameState: useState, TRUE when an error is set
  processingComputer,  \* useGameState: useState
  invocations,         \* the calls of startNewGame / resetGame and where they are
  pauses,              \* pending COMPUTER_ACTION_DELAY timers, oldest first
  games,               \* number of calls of startNewGame / resetGame so far
  hookGame,            \* useGameState: useState gameState, the fields the
                       \* hook and App read
  newGameStored,       \* history: the newest startNewGame call (numbered as
                       \* games numbers them) whose state has been stored
  triggers,            \* bag of triggerComputerAction calls awaiting their
                       \* request, each the value of games when it was sent
  returned,            \* what the last step gave the caller of
                       \* triggerComputerAction, if it ended such a call
  showSetup,           \* App: useState, the setup screen is shown
  heroPosition,        \* GameSetup: useState
  villainPosition,     \* GameSetup: useState
  gameConfig,          \* the configuration GameSetup passed to onStartGame last
  allSeats             \* the seats getAllSeats built in the last render

tableVars == <<gameState, visualActionOn, foldedPositions, preflopDone, handIdRef,
               timers, effectTimer, inflight, heroCanAct, ev, stepped>>

hookVars == <<abortRef, loading, error, processingComputer, invocations,
              pauses, games, hookGame, newGameStored, triggers, returned>>

appVars == <<showSetup, heroPosition, villainPosition, gameConfig, allSeats>>

vars == <<gameState, visualActionOn, foldedPositions, preflopDone, handIdRef,
          timers, effectTimer, inflight, heroCanAct, ev, stepped,
          abortRef, loading, error, processingComputer, invocations,
          pauses, games, hookGame, newGameStored, triggers, returned,
          showSetup, heroPosition, villainPosition, gameConfig, allSeats>>

\* ------------------------------------------------------- component state
\* The React state of one render, with the refs and the outputs the effects
\* write to.  sigs lists the values passed to onHeroCanAct during the task,
\* newHand tells whether the reset effect detected a new hand during it.
LocalState ==
  [visualActionOn |-> visualActionOn, foldedPositions |-> foldedPositions,
   preflopDone |-> preflopDone, handIdRef |-> handIdRef, timers |-> timers,
   effectTimer |-> effectTimer, heroCanAct |-> heroCanAct,
   sigs |-> <<>>, newHand |-> FALSE]

\* onHeroCanAct?.(b): App's setHeroCanAct
Signal(q, b) == [q EXCEPT !.heroCanAct = b, !.sigs = Append(@, b)]

\* `${heroPosition}-${villainPosition}-${gameState.hand_id || Date.now()}`.
\* id 0 is a key built from Date.now().
CurrentHandId(gs) ==
  [hero |-> gs.human_position, villain |-> gs.villain_position, id |-> gs.hand_id]

NoHandId == [hero |-> NoPosition, villain |-> NoPosition, id |-> -1]

\* The key compared without its hand_id part
IsNewHand_IgnoresHandId(ref, gs, tick) ==
  \/ ref.hero # gs.human_position
  \/ ref.villain # gs.villain_position

\* handIdRef.current !== currentHandId.  tick: the clock has moved on since
\* the key in handIdRef was built (only matters for keys built from Date.now()).
IsNewHand(ref, gs, tick) ==
  \/ ref # CurrentHandId(gs)
  \/ gs.hand_id = 0 /\ tick

\* Effect 1 without setVisualActionOn('UTG')
ResetEffect_KeepsHighlight(q, gs, tick) ==
  IF ~gs.present THEN q
  ELSE IF IsNewHand(q.handIdRef, gs, tick)
       THEN Signal([q EXCEPT !.handIdRef = CurrentHandId(gs),
                             !.foldedPositions = {},
                             !.preflopDone = FALSE,
                             !.newHand = TRUE], FALSE)
       ELSE q

\* Effect 1: reset state when a new hand starts.
ResetEffect(q, gs, tick) ==
  IF ~gs.present THEN q
  ELSE IF IsNewHand(q.handIdRef, gs, tick)
       THEN Signal([q EXCEPT !.handIdRef = CurrentHandId(gs),
                             !.foldedPositions = {},
                             !.preflopDone = FALSE,
                             !.visualActionOn = "UTG",
                             !.newHand = TRUE], FALSE)
       ELSE q

\* action_history.filter(a => a.action === 'fold').map(a => a.position)
FoldedFromHistory(gs) ==
  {gs.action_history[i].position :
     i \in {j \in 1..Len(gs.action_history) : gs.action_history[j].action = "fold"}}

\* The history merge forgetting the folds already shown
MergeFolds_Overwrite(prev, folds) == folds

\* The functional update of effect 2: a copy of prev with every fold of the
\* history added.
MergeFolds(prev, folds) == prev \cup folds

\* The functional update of the timer callback: new Set([...prev, position])
MarkFolded(prev, p) == prev \cup {p}

\* Effect 2 storing the folds of the history instead of merging them
HistoryEffect_Replace(q, gs) ==
  IF gs.action_history = <<>> THEN q
  ELSE IF FoldedFromHistory(gs) # {}
       THEN [q EXCEPT !.foldedPositions = FoldedFromHistory(gs)]
       ELSE q

\* Effect 2: merge the folds of the authoritative action history.
HistoryEffect(q, gs) ==
  IF gs.action_history = <<>> THEN q
  ELSE IF FoldedFromHistory(gs) # {}
       THEN [q EXCEPT !.foldedPositions = MergeFolds(@, FoldedFromHistory(gs))]
       ELSE q

\* Cleanup of effect 3: clearTimeout(timer) for the timer of its last run.
Cleanup(q) == [q EXCEPT !.timers = @ \ q.effectTimer, !.effectTimer = {}]

\* Effect 3 without the isHero branch
ProgressionEffect_NoHeroCheck(vis, done, gs, q) ==
  IF ~gs.present \/ done \/ vis = NoPosition THEN q
  ELSE IF gs.street # "preflop"
       THEN Signal([q EXCEPT !.preflopDone = TRUE], TRUE)
  ELSE LET t == [pos |-> vis, hero |-> gs.human_position,
                 villain |-> gs.villain_position]
       IN [q EXCEPT !.timers = @ \cup {t}, !.effectTimer = {t}]

\* Effect 3 without the street check
ProgressionEffect_NoStreetOverride(vis, done, gs, q) ==
  IF ~gs.present \/ done \/ vis = NoPosition THEN q
  ELSE IF vis = gs.human_position
       THEN Signal(q, TRUE)
  ELSE LET t == [pos |-> vis, hero |-> gs.human_position,
                 villain |-> gs.villain_position]
       IN [q EXCEPT !.timers = @ \cup {t}, !.effectTimer = {t}]

\* Effect 3: preflop action progression.  vis and done are the values of the
\* render the effect closes over; q holds the updates queued so far.
ProgressionEffect(vis, done, gs, q) ==
  IF ~gs.present \/ done \/ vis = NoPosition THEN q
  ELSE IF gs.street # "preflop"
       THEN Signal([q EXCEPT !.preflopDone = TRUE], TRUE)
  ELSE IF vis = gs.human_position
       THEN Signal(q, TRUE)
  ELSE LET t == [pos |-> vis, hero |-> gs.human_position,
                 villain |-> gs.villain_position]
       IN [q EXCEPT !.timers = @ \cup {t}, !.effectTimer = {t}]

\* Re-render after the effects queued state updates: the progression effect
\* runs again (after its cleanup) as long as visualActionOn or preflopDone
\* differ from the render it last ran for.
RECURSIVE Settle(_, _, _)
Settle(r, q, gs) ==
  IF q.visualActionOn = r.visualActionOn /\ q.preflopDone = r.preflopDone
  THEN q
  ELSE Settle(q, ProgressionEffect(q.visualActionOn, q.preflopDone, gs, Cleanup(q)), gs)

\* The render with the history effect declared before the reset effect
Commit_HistoryBeforeReset(prev, cur, gs, gsChanged, tick) ==
  LET runE3 == \/ gsChanged
               \/ cur.visualActionOn # prev.visualActionOn
               \/ cur.preflopDone # prev.preflopDone
      q0 == IF runE3 THEN Cleanup(cur) ELSE cur
      q1 == IF gsChanged THEN ResetEffect(HistoryEffect(q0, gs), gs, tick) ELSE q0
      q2 == IF runE3
            THEN ProgressionEffect(cur.visualActionOn, cur.preflopDone, gs, q1)
            ELSE q1
  IN Settle(cur, q2, gs)

\* One render with state cur and prop gs, following the render with state
\* prev; gsChanged tells whether the gameState prop is a new object.  Effects
\* whose dependencies changed run in declaration order after all cleanups.
Commit(prev, cur, gs, gsChanged, tick) ==
  LET runE3 == \/ gsChanged
               \/ cur.visualActionOn # prev.visualActionOn
               \/ cur.preflopDone # prev.preflopDone
      q0 == IF runE3 THEN Cleanup(cur) ELSE cur
      q1 == IF gsChanged THEN HistoryEffect(ResetEffect(q0, gs, tick), gs) ELSE q0
      q2 == IF runE3
            THEN ProgressionEffect(cur.visualActionOn, cur.preflopDone, gs, q1)
            ELSE q1
  IN Settle(cur, q2, gs)

\* The continuation leaving the highlight in place when the human is next
Continuation_KeepsHighlight(q, c) ==
  IF NextPosition(c.pos) = c.hero
  THEN Signal([q EXCEPT !.preflopDone = TRUE], TRUE)
  ELSE [q EXCEPT !.visualActionOn = NextPosition(c.pos)]

\* The continuation releasing the human without marking the sequence complete
Continuation_SkipsDone(q, c) ==
  IF NextPosition(c.pos) = c.hero
  THEN Signal([q EXCEPT !.visualActionOn = NoPosition], TRUE)
  ELSE [q EXCEPT !.visualActionOn = NextPosition(c.pos)]

\* The continuation leaving highlight and flag as they are
Continuation_StaysPut(q, c) == q

\* The continuation clearing the flag when it moves the highlight on
Continuation_ClearsDone(q, c) ==
  IF NextPosition(c.pos) = c.hero
  THEN Signal([q EXCEPT !.preflopDone = TRUE, !.visualActionOn = NoPosition], TRUE)
  ELSE [q EXCEPT !.visualActionOn = NextPosition(c.pos), !.preflopDone = FALSE]

\* The part of the timer callback after `await onComputerAction?.()`.
\* c is the closure of the callback.
Continuation(q, c) ==
  IF NextPosition(c.pos) = c.hero
  THEN Signal([q EXCEPT !.preflopDone = TRUE, !.visualActionOn = NoPosition], TRUE)
  ELSE [q EXCEPT !.visualActionOn = NextPosition(c.pos)]

Install(q) ==
  /\ visualActionOn' = q.visualActionOn
  /\ foldedPositions' = q.foldedPositions
  /\ preflopDone' = q.preflopDone
  /\ handIdRef' = q.handIdRef
  /\ timers' = q.timers
  /\ effectTimer' = q.effectTimer
  /\ heroCanAct' = q.heroCanAct

\* ------------------------------------------------------------------- seats
SeatIndices == 0..5

\* The table before its first render with a game
NoSeats ==
  [seatIndex \in SeatIndices |->
     [position |-> NoPosition, isEmpty |-> TRUE, hasFolded |-> FALSE, isDealer |-> FALSE]]

\* getAllSeats without the rotation
getAllSeats_NoRotation(gs, folded) ==
  [seatIndex \in SeatIndices |->
     LET position == POSITION_ORDER[(seatIndex % 6) + 1]
     IN  [position |-> position,
          isEmpty |-> position \notin {gs.human_position, gs.villain_position},
          hasFolded |-> position \in folded,
          isDealer |-> position = "BTN"]]

\* getAllSeats(): the seat at each index of the rendered table, for the
\* snapshot and the foldedPositions of the render
getAllSeats(gs, folded) ==
  [seatIndex \in SeatIndices |->
     LET rotationOffset == IndexOf(POSITION_ORDER, gs.human_position)
         position == POSITION_ORDER[((seatIndex + rotationOffset) % 6) + 1]
     IN  [position |-> position,
          isEmpty |-> position \notin {gs.human_position, gs.villain_position},
          hasFolded |-> position \in folded,
          isDealer |-> position = "BTN"]]

\* ------------------------------------------------------------------ actions
\* An invocation of startNewGame, submitAction or resetGame: which function
\* it is, where its async body is suspended, the value of games once it was
\* called, the value of games when its processComputerActions loop started
\* and when the loop sent its latest computerAction request (0: none yet).
NotCalled == [fn |-> "none", pc |-> "idle", game |-> 0, loopStarted |-> 0, sentAt |-> 0]

\* An invocation that waits to call processComputerActions: its function and
\* its number are not read again.
Delayed == [fn |-> "none", pc |-> "delay", game |-> 0, loopStarted |-> 0, sentAt |-> 0]

\* An invocation whose async body has run to its end: nothing of it is read
\* again and its record is free for the next call.
Finished == NotCalled

\* gameState of the hook before the first response: null
NoState == [present |-> FALSE, action_taken |-> FALSE, hand_complete |-> FALSE,
            action_on |-> "nobody"]

\* App's gameConfig before the first start: null
NoConfig == [hero_position |-> NoPosition, villain_position |-> NoPosition]

\* The step ended no triggerComputerAction call
NoReturn == [outcome |-> "none", value |-> NoState]

Init ==
  /\ gameState = NoGame
  /\ visualActionOn = NoPosition
  /\ foldedPositions = {}
  /\ preflopDone = FALSE
  /\ handIdRef = NoHandId
  /\ timers = {}
  /\ effectTimer = {}
  /\ inflight = EmptyBag
  /\ heroCanAct = FALSE
  /\ ev = [newHand |-> FALSE, sigs |-> <<>>]
  /\ stepped = {}
  /\ abortRef = FALSE
  /\ loading = FALSE
  /\ error = FALSE
  /\ processingComputer = FALSE
  /\ invocations = [k \in 1..MaxInvocations |-> NotCalled]
  /\ pauses = <<>>
  /\ games = 0
  /\ hookGame = NoState
  /\ newGameStored = 0
  /\ triggers = EmptyBag
  /\ returned = NoReturn
  /\ showSetup = TRUE
  /\ heroPosition = "BTN"
  /\ villainPosition = "BB"
  /\ gameConfig = NoConfig
  /\ allSeats = NoSeats

\* The seats of a mounted table are those of the game it was started for:
\* the application changes them only on its setup screen, where the table is
\* not mounted.
SameSeats(gs) ==
  gameState.present =>
    /\ gs.human_position = gameState.human_position
    /\ gs.villain_position = gameState.villain_position

\* Date.now() can only have stayed the same for a key that was built from it.
Ticks(gs) == IF gs.hand_id = 0 THEN BOOLEAN ELSE {FALSE}

\* The surrounding application renders the table with a new snapshot.
SnapshotArrives(gs, tick) ==
  /\ SameSeats(gs)
  /\ \E q \in {Commit(LocalState, LocalState, gs, TRUE, tick)} :
        /\ gameState' = gs
        /\ Install(q)
        /\ UNCHANGED inflight
        /\ ev' = [newHand |-> q.newHand, sigs |-> q.sigs]
        /\ stepped' = IF q.newHand THEN {} ELSE stepped
  /\ UNCHANGED <<hookVars, appVars>>

\* The timer callback marking every stepped seat folded, the opponent's too
TimerFires_FoldsOpponent(t) ==
  /\ t \in timers
  /\ BagCardinality(inflight) < MaxInFlight
  /\ timers' = timers \ {t}
  /\ foldedPositions' = MarkFolded(foldedPositions, t.pos)
  /\ inflight' = inflight (+) SetToBag({[pos |-> t.pos, hero |-> t.hero]})
  /\ ev' = [newHand |-> FALSE, sigs |-> <<>>]
  /\ stepped' = stepped \cup {t.pos}
  /\ UNCHANGED <<gameState, visualActionOn, preflopDone, handIdRef, effectTimer,
                 heroCanAct>>
  /\ UNCHANGED <<hookVars, appVars>>

\* The delay of a scheduled step elapses: the timer callback runs up to its
\* await.
TimerFires(t) ==
  /\ t \in timers
  /\ BagCardinality(inflight) < MaxInFlight
  /\ timers' = timers \ {t}
  /\ foldedPositions' = IF t.pos # t.villain
                        THEN MarkFolded(foldedPositions, t.pos)
                        ELSE foldedPositions
  /\ inflight' = inflight (+) SetToBag({[pos |-> t.pos, hero |-> t.hero]})
  /\ ev' = [newHand |-> FALSE, sigs |-> <<>>]
  /\ stepped' = stepped \cup {t.pos}
  /\ UNCHANGED <<gameState, visualActionOn, preflopDone, handIdRef, effectTimer,
                 heroCanAct>>
  /\ UNCHANGED <<hookVars, appVars>>

\* triggerComputerAction resolves with the snapshot of the response, which it
\* has stored with setGameState; the awaiting timer callback continues.
AdvanceSucceeds(c, resp, tick) ==
  /\ BagIn(c, inflight)
  /\ SameSeats(resp)
  /\ \E q \in {Commit(LocalState, Continuation(LocalState, c), resp, TRUE, tick)} :
        /\ gameState' = resp
        /\ Install(q)
        /\ inflight' = inflight (-) SetToBag({c})
        /\ ev' = [newHand |-> q.newHand, sigs |-> q.sigs]
        /\ stepped' = IF q.newHand THEN {} ELSE stepped
  /\ UNCHANGED <<hookVars, appVars>>

\* The request fails: triggerComputerAction catches the error, sets the
\* application error and resolves with null; the timer callback continues.
AdvanceFails(c) ==
  /\ BagIn(c, inflight)
  /\ \E q \in {Commit(LocalState, Continuation(LocalState, c), gameState, FALSE, FALSE)} :
        /\ Install(q)
        /\ inflight' = inflight (-) SetToBag({c})
        /\ ev' = [newHand |-> q.newHand, sigs |-> q.sigs]
        /\ stepped' = IF q.newHand THEN {} ELSE stepped
  /\ UNCHANGED gameState
  /\ UNCHANGED <<hookVars, appVars>>

\* The snapshots whose hand key is built from Date.now() (TRUE) or from a
\* hand_id of the server (FALSE)
SnapshotsKeyed(byClock) == {gs \in Snapshots : (gs.hand_id = 0) = byClock}

Next ==
  \/ \E byClock \in BOOLEAN : \E gs \in SnapshotsKeyed(byClock) :
        \E tick \in Ticks(gs) : SnapshotArrives(gs, tick)
  \/ \E t \in timers : TimerFires(t)
  \/ \E c \in BagToSet(inflight), byClock \in BOOLEAN :
        \E resp \in SnapshotsKeyed(byClock) : \E tick \in Ticks(resp) :
          AdvanceSucceeds(c, resp, tick)
  \/ \E c \in BagToSet(inflight) : AdvanceFails(c)

Spec == Init /\ [][Next]_vars

TypeOK ==
  /\ gameState \in Snapshots \cup {NoGame}
  /\ visualActionOn \in Positions \cup {NoPosition}
  /\ foldedPositions \subseteq Positions
  /\ preflopDone \in BOOLEAN
  /\ heroCanAct \in BOOLEAN
  /\ stepped \subseteq Positions
  /\ BagCardinality(inflight) <= MaxInFlight

\* ------------------------------------------- one preflop hand, with fairness
\* The snapshots of one hand that stays on preflop: the server's hand_id and
\* the street are fixed, the rest of the snapshot varies.
PreflopSnapshots == {gs \in Snapshots : gs.hand_id = 1 /\ gs.street = "preflop"}

RefreshArrives == \E gs \in PreflopSnapshots : SnapshotArrives(gs, FALSE)

StepStarts == \E t \in timers : TimerFires(t)

AdvanceReturns ==
  \E c \in BagToSet(inflight) :
    \/ AdvanceFails(c)
    \/ \E resp \in PreflopSnapshots : AdvanceSucceeds(c, resp, FALSE)

PreflopNext == RefreshArrives \/ StepStarts \/ AdvanceReturns

\* Scheduled delay callbacks eventually run and every request of the advance
\* call is eventually answered or fails.  A snapshot that arrives while a
\* delay is pending clears the timer and schedules it anew; the fairness on
\* StepStarts leaves out the runs in which such arrivals, each less than the
\* delay after the one before, go on for ever.
PreflopSpec ==
  /\ Init
  /\ [][PreflopNext]_vars
  /\ WF_vars(StepStarts)
  /\ WF_vars(AdvanceReturns)

\* ------------------------------------------------------ useGameState hook
HookFunctions == {"startNewGame", "submitAction", "resetGame"}

\* What the hook and App read of a state the server returns: action_taken,
\* hand_complete, and whether players[action_on] is the human, a computer
\* player, or missing.
\* Of a complete hand the code reads no more than hand_complete, so one
\* value of action_on stands for all of them there.
ActionResponses ==
  {r \in [present : {TRUE}, action_taken : BOOLEAN, hand_complete : BOOLEAN,
          action_on : {"human", "computer", "nobody"}] :
     r.hand_complete => r.action_on = "nobody"}

\* The states gameApi.newGame, submitAction and resetGame return carry no
\* action_taken.
GameResponses == {r \in ActionResponses : ~r.action_taken}

\* The record that holds the next invocation: the first one that is not in
\* use (0: MaxInvocations calls are unfinished).
FreeSlot ==
  IF \E k \in 1..MaxInvocations : invocations[k].pc = "idle"
  THEN CHOOSE k \in 1..MaxInvocations :
         /\ invocations[k].pc = "idle"
         /\ \A j \in 1..(k - 1) : invocations[j].pc # "idle"
  ELSE 0

\* startNewGame(...), submitAction(...) or resetGame(...) is called: the body
\* runs up to the await of its request.  submitAction leaves the abort flag.
Invoke(fn) ==
  /\ FreeSlot # 0
  /\ fn # "submitAction" => games < MaxGames
  /\ games' = IF fn = "submitAction" THEN games ELSE games + 1
  /\ abortRef' = IF fn = "submitAction" THEN abortRef ELSE TRUE
  /\ loading' = TRUE
  /\ error' = FALSE
  /\ invocations' = [invocations EXCEPT
                       ![FreeSlot] = [fn |-> fn, pc |-> "newGame", game |-> games',
                                      loopStarted |-> 0, sentAt |-> 0]]
  /\ UNCHANGED <<processingComputer, pauses, hookGame, newGameStored, triggers>>
  /\ returned' = NoReturn
  /\ UNCHANGED tableVars

\* The function's own request resolves with state resp, which is stored.
\* With a computer player to act in a hand that is not complete, the function
\* waits COMPUTER_ACTION_DELAY before it calls processComputerActions.
GameResponds(k, resp) ==
  /\ invocations[k].pc = "newGame"
  /\ hookGame' = resp
  /\ newGameStored' = IF invocations[k].fn = "startNewGame"
                         /\ invocations[k].game > newGameStored
                      THEN invocations[k].game ELSE newGameStored
  /\ loading' = FALSE
  /\ IF resp.action_on = "computer" /\ ~resp.hand_complete
     THEN /\ invocations' = [invocations EXCEPT ![k] = Delayed]
          /\ pauses' = Append(pauses, k)
     ELSE /\ invocations' = [invocations EXCEPT ![k] = Finished]
          /\ UNCHANGED pauses
  /\ UNCHANGED <<abortRef, error, processingComputer, games, triggers>>
  /\ returned' = NoReturn
  /\ UNCHANGED tableVars

\* The catch of startNewGame / submitAction / resetGame going on to the
\* computer's actions
GameFails_StartsLoop(k) ==
  /\ invocations[k].pc = "newGame"
  /\ error' = TRUE
  /\ loading' = FALSE
  /\ invocations' = [invocations EXCEPT ![k] = Delayed]
  /\ pauses' = Append(pauses, k)
  /\ UNCHANGED <<abortRef, processingComputer, games,
                 hookGame, newGameStored, triggers>>
  /\ returned' = NoReturn
  /\ UNCHANGED tableVars

\* The function's own request rejects.
GameFails(k) ==
  /\ invocations[k].pc = "newGame"
  /\ error' = TRUE
  /\ loading' = FALSE
  /\ invocations' = [invocations EXCEPT ![k] = Finished]
  /\ UNCHANGED <<abortRef, processingComputer, pauses, games,
                 hookGame, newGameStored, triggers>>
  /\ returned' = NoReturn
  /\ UNCHANGED tableVars

\* processComputerActions() is called: it sets processingComputer, clears the
\* abort flag and runs processNext, which finds the flag clear and requests
\* gameApi.computerAction().
LoopStarts(k) ==
  /\ pauses # <<>> /\ Head(pauses) = k
  /\ invocations[k].pc = "delay"
  /\ pauses' = Tail(pauses)
  /\ processingComputer' = TRUE
  /\ abortRef' = FALSE
  /\ invocations' = [invocations EXCEPT ![k].pc = "request",
                                        ![k].loopStarted = games,
                                        ![k].sentAt = games]
  /\ UNCHANGED <<loading, error, games, hookGame, newGameStored,
                 triggers>>
  /\ returned' = NoReturn
  /\ UNCHANGED tableVars

\* processNext going on whenever a computer player is to act
ActionResponds_IgnoresActionTaken(k, resp) ==
  /\ invocations[k].pc = "request"
  /\ hookGame' = resp
  /\ IF ~resp.hand_complete /\ resp.action_on = "computer"
     THEN /\ invocations' = [invocations EXCEPT ![k].pc = "pause", ![k].sentAt = 0]
          /\ pauses' = Append(pauses, k)
          /\ UNCHANGED processingComputer
     ELSE /\ invocations' = [invocations EXCEPT ![k] = Finished]
          /\ processingComputer' = FALSE
          /\ UNCHANGED pauses
  /\ UNCHANGED <<abortRef, loading, error, games, newGameStored,
                 triggers>>
  /\ returned' = NoReturn
  /\ UNCHANGED tableVars

\* gameApi.computerAction() resolves with state resp, which is stored.  The
\* loop goes on after a pause when the response reports action_taken, the
\* hand is not complete and the next player is a computer player; otherwise
\* processNext returns and the loop ends.
ActionResponds(k, resp) ==
  /\ invocations[k].pc = "request"
  /\ hookGame' = resp
  /\ IF resp.action_taken /\ ~resp.hand_complete /\ resp.action_on = "computer"
     THEN /\ invocations' = [invocations EXCEPT ![k].pc = "pause", ![k].sentAt = 0]
          /\ pauses' = Append(pauses, k)
          /\ UNCHANGED processingComputer
     ELSE /\ invocations' = [invocations EXCEPT ![k] = Finished]
          /\ processingComputer' = FALSE
          /\ UNCHANGED pauses
  /\ UNCHANGED <<abortRef, loading, error, games, newGameStored,
                 triggers>>
  /\ returned' = NoReturn
  /\ UNCHANGED tableVars

\* gameApi.computerAction() rejects: the catch sets the error unless the
\* abort flag is set; processNext returns and the loop ends.
ActionFails(k) ==
  /\ invocations[k].pc = "request"
  /\ error' = IF abortRef THEN error ELSE TRUE
  /\ processingComputer' = FALSE
  /\ invocations' = [invocations EXCEPT ![k] = Finished]
  /\ UNCHANGED <<abortRef, loading, pauses, games, hookGame,
                 newGameStored, triggers>>
  /\ returned' = NoReturn
  /\ UNCHANGED tableVars

\* The pause between two computer actions is over: with the abort flag clear
\* processNext runs again and sends the next request, otherwise the loop ends.
PauseEnds(k) ==
  /\ pauses # <<>> /\ Head(pauses) = k
  /\ invocations[k].pc = "pause"
  /\ pauses' = Tail(pauses)
  /\ IF abortRef
     THEN /\ invocations' = [invocations EXCEPT ![k] = Finished]
          /\ processingComputer' = FALSE
     ELSE /\ invocations' = [invocations EXCEPT ![k].pc = "request",
                                                ![k].sentAt = games]
          /\ UNCHANGED processingComputer
  /\ UNCHANGED <<abortRef, loading, error, games, hookGame,
                 newGameStored, triggers>>
  /\ returned' = NoReturn
  /\ UNCHANGED tableVars

\* triggerComputerAction() is called: it requests gameApi.computerAction().
TriggerCalled ==
  /\ BagCardinality(triggers) < MaxTriggers
  /\ triggers' = triggers (+) SetToBag({games})
  /\ UNCHANGED <<abortRef, loading, error, processingComputer, invocations,
                 pauses, games, hookGame, newGameStored>>
  /\ returned' = NoReturn
  /\ UNCHANGED tableVars

\* The request of a triggerComputerAction call resolves with state resp: the
\* state is stored and returned.
TriggerResponds(t, resp) ==
  /\ BagIn(t, triggers)
  /\ triggers' = triggers (-) SetToBag({t})
  /\ hookGame' = resp
  /\ returned' = [outcome |-> "value", value |-> resp]
  /\ UNCHANGED <<abortRef, loading, error, processingComputer, invocations, pauses,
                 games, newGameStored>>
  /\ UNCHANGED tableVars

\* The catch of triggerComputerAction clearing the state as well
TriggerFails_ClearsState(t) ==
  /\ BagIn(t, triggers)
  /\ triggers' = triggers (-) SetToBag({t})
  /\ error' = TRUE
  /\ hookGame' = NoState
  /\ returned' = [outcome |-> "null", value |-> NoState]
  /\ UNCHANGED <<abortRef, loading, processingComputer, invocations, pauses,
                 games, newGameStored>>
  /\ UNCHANGED tableVars

\* The request of a triggerComputerAction call rejects: the catch sets the
\* error and the call returns null.
TriggerFails(t) ==
  /\ BagIn(t, triggers)
  /\ triggers' = triggers (-) SetToBag({t})
  /\ error' = TRUE
  /\ returned' = [outcome |-> "null", value |-> NoState]
  /\ UNCHANGED <<abortRef, loading, processingComputer, invocations, pauses,
                 games, hookGame, newGameStored>>
  /\ UNCHANGED tableVars

\* isHumanTurn, as the hook computes it on each render
IsHumanTurn ==
  /\ hookGame.present
  /\ hookGame.action_on = "human"
  /\ ~hookGame.hand_complete
  /\ ~processingComputer

HookNext ==
  \/ \E fn \in HookFunctions : Invoke(fn) /\ UNCHANGED appVars
  \/ \E k \in 1..MaxInvocations, resp \in GameResponses :
        GameResponds(k, resp) /\ UNCHANGED appVars
  \/ \E k \in 1..MaxInvocations : GameFails(k) /\ UNCHANGED appVars
  \/ \E k \in 1..MaxInvocations : LoopStarts(k) /\ UNCHANGED appVars
  \/ \E k \in 1..MaxInvocations, resp \in ActionResponses :
        ActionResponds(k, resp) /\ UNCHANGED appVars
  \/ \E k \in 1..MaxInvocations : ActionFails(k) /\ UNCHANGED appVars
  \/ \E k \in 1..MaxInvocations : PauseEnds(k) /\ UNCHANGED appVars
  \/ TriggerCalled /\ UNCHANGED appVars
  \/ \E t \in BagToSet(triggers), resp \in ActionResponses :
        TriggerResponds(t, resp) /\ UNCHANGED appVars
  \/ \E t \in BagToSet(triggers) : TriggerFails(t) /\ UNCHANGED appVars

HookSpec == Init /\ [][HookNext]_vars

\* --------------------------------------------------------------- the App
\* The hook as App uses it: the calls of startNewGame and submitAction are the
\* clicks the rendered screen allows.  The table is taken for what it does to
\* App: it calls onComputerAction and onHeroCanAct while it shows a game.

\* The ActionPanel shown whenever it is the human's turn
PanelOffered_IgnoresHeroCanAct ==
  /\ ~showSetup
  /\ ~hookGame.hand_complete
  /\ IsHumanTurn

\* The branch of App's render that shows the ActionPanel
PanelOffered ==
  /\ ~showSetup
  /\ ~hookGame.hand_complete
  /\ IsHumanTurn /\ heroCanAct

\* GameSetup's Start Game button: handleStart passes the selection to
\* handleStartGame, which leaves the setup screen and calls startNewGame.
StartGameClicked ==
  /\ showSetup /\ ~loading
  /\ showSetup' = FALSE
  /\ gameConfig' = [hero_position |-> heroPosition, villain_position |-> villainPosition]
  /\ Invoke("startNewGame")
  /\ UNCHANGED <<heroPosition, villainPosition, allSeats>>

\* The Deal New Hand button of a complete hand: handleNewHand
NewHandClicked ==
  /\ ~showSetup /\ hookGame.hand_complete /\ ~loading
  /\ gameConfig # NoConfig
  /\ Invoke("startNewGame")
  /\ UNCHANGED appVars

\* The Train a Different Spot button of a complete hand: handleNewGame
DifferentSpotClicked ==
  /\ ~showSetup /\ hookGame.hand_complete /\ ~loading
  /\ showSetup' = TRUE
  /\ returned' = NoReturn
  /\ UNCHANGED <<abortRef, loading, error, processingComputer, invocations, pauses,
                 games, hookGame, newGameStored, triggers>>
  /\ UNCHANGED <<heroPosition, villainPosition, gameConfig, allSeats>>
  /\ UNCHANGED tableVars

\* The panel's handleAction without its test of disabled
ActionClicked_IgnoresDisabled ==
  /\ PanelOffered
  /\ Invoke("submitAction")
  /\ UNCHANGED appVars

\* A button of the ActionPanel is clicked: handleAction of the panel returns
\* when the panel is disabled and otherwise calls onAction, App's
\* handleAction, which calls submitAction.
ActionClicked ==
  /\ PanelOffered
  /\ IF loading
     THEN UNCHANGED vars
     ELSE Invoke("submitAction") /\ UNCHANGED appVars

\* The table calls onComputerAction from a timer callback.
TableCallsTrigger ==
  /\ ~showSetup /\ hookGame.present
  /\ TriggerCalled
  /\ UNCHANGED appVars

\* The table calls onHeroCanAct(b), App's setHeroCanAct.
TableSignals(b) ==
  /\ ~showSetup /\ hookGame.present
  /\ heroCanAct' = b
  /\ returned' = NoReturn
  /\ UNCHANGED <<gameState, visualActionOn, foldedPositions, preflopDone, handIdRef,
                 timers, effectTimer, inflight, ev, stepped>>
  /\ UNCHANGED <<abortRef, loading, error, processingComputer, invocations, pauses,
                 games, hookGame, newGameStored, triggers>>
  /\ UNCHANGED appVars

AppNext ==
  \/ StartGameClicked
  \/ NewHandClicked
  \/ DifferentSpotClicked
  \/ ActionClicked
  \/ TableCallsTrigger
  \/ \E b \in BOOLEAN : TableSignals(b)
  \/ \E k \in 1..MaxInvocations, resp \in GameResponses :
        GameResponds(k, resp) /\ UNCHANGED appVars
  \/ \E k \in 1..MaxInvocations : GameFails(k) /\ UNCHANGED appVars
  \/ \E k \in 1..MaxInvocations : LoopStarts(k) /\ UNCHANGED appVars
  \/ \E k \in 1..MaxInvocations, resp \in ActionResponses :
        ActionResponds(k, resp) /\ UNCHANGED appVars
  \/ \E k \in 1..MaxInvocations : ActionFails(k) /\ UNCHANGED appVars
  \/ \E k \in 1..MaxInvocations : PauseEnds(k) /\ UNCHANGED appVars
  \/ \E t \in BagToSet(triggers), resp \in ActionResponses :
        TriggerResponds(t, resp) /\ UNCHANGED appVars
  \/ \E t \in BagToSet(triggers) : TriggerFails(t) /\ UNCHANGED appVars

AppSpec == Init /\ [][AppNext]_vars

\* ------------------------------------------------------------ GameSetup
POSITIONS == <<"BTN", "SB", "BB", "UTG", "MP", "CO">>

\* availableVillainPositions for a hero position
AvailableVillainPositions(hero) == SelectSeq(POSITIONS, LAMBDA p : p # hero)

\* A hero position button that leaves the opponent where it is
SelectHero_KeepsVillain(p) ==
  /\ heroPosition' = p
  /\ villainPosition' = villainPosition
  /\ UNCHANGED <<showSetup, gameConfig, allSeats>>
  /\ UNCHANGED <<tableVars, hookVars>>

\* A hero position button is clicked: setHeroPosition(p), and the render that
\* follows moves the opponent when it finds both on the same position.
SelectHero(p) ==
  /\ heroPosition' = p
  /\ villainPosition' = IF villainPosition = p
                        THEN AvailableVillainPositions(p)[1]
                        ELSE villainPosition
  /\ UNCHANGED <<showSetup, gameConfig, allSeats>>
  /\ UNCHANGED <<tableVars, hookVars>>

\* An opponent position button is clicked; the hero's is disabled.
SelectVillain(p) ==
  /\ p # heroPosition
  /\ villainPosition' = p
  /\ UNCHANGED <<showSetup, heroPosition, gameConfig, allSeats>>
  /\ UNCHANGED <<tableVars, hookVars>>

\* Start Game is clicked: handleStart passes the selection to onStartGame.
HandleStart ==
  /\ gameConfig' = [hero_position |-> heroPosition, villain_position |-> villainPosition]
  /\ UNCHANGED <<showSetup, heroPosition, villainPosition, allSeats>>
  /\ UNCHANGED <<tableVars, hookVars>>

SetupNext ==
  \/ \E p \in Positions : SelectHero(p)
  \/ \E p \in Positions : SelectVillain(p)
  \/ HandleStart

SetupSpec == Init /\ [][SetupNext]_vars

\* ------------------------------------------------------- rendered seats
\* The renders of the table taken alone: a snapshot, a set of folded seats
\* that are neither the human's nor the opponent's, and the seats the table
\* draws for them.
SeatsInit == Init

\* The table renders snapshot gs with the seats of set folded marked folded.
TableRenders(gs, folded) ==
  /\ gameState' = gs
  /\ foldedPositions' = folded
  /\ allSeats' = getAllSeats(gs, folded)
  /\ UNCHANGED <<visualActionOn, preflopDone, handIdRef, timers, effectTimer,
                 inflight, heroCanAct, ev, stepped>>
  /\ UNCHANGED <<showSetup, heroPosition, villainPosition, gameConfig>>
  /\ UNCHANGED hookVars

SeatsNext ==
  \E gs \in Snapshots :
    \E folded \in SUBSET (Positions \ {gs.human_position, gs.villain_position}) :
      TableRenders(gs, folded)

SeatsSpec == SeatsInit /\ [][SeatsNext]_vars

\* ------------------------------------------------------------------ claims
Preflop == gameState.present /\ gameState.street = "preflop"
PastPreflop == gameState.present /\ gameState.street # "preflop"

\* A call in flight for a position that has not been stepped in the current
\* hand was issued by a step of an earlier hand.
Stale(c) == c.pos \notin stepped

\* The positions that act before p in first-to-act order
BeforeInOrder(p) ==
  {PREFLOP_ACTION_ORDER[i] : i \in 1..IndexOf(PREFLOP_ACTION_ORDER, p)}

\* The visible state after this step is the one the arrival of snapshot gs
\* alone would have produced.
SameAsSnapshotAlone(gs, tick) ==
  LET q == Commit(LocalState, LocalState, gs, TRUE, tick)
  IN /\ visualActionOn' = q.visualActionOn
     /\ foldedPositions' = q.foldedPositions
     /\ preflopDone' = q.preflopDone
     /\ heroCanAct' = q.heroCanAct

\* C1: in every state whose rendered snapshot has a street other than preflop
\* the sequence is marked complete and the last human-may-act value is true,
\* whatever timers and advance calls are outstanding; steps that complete
\* later leave both in place.
C1_StreetOverride == PastPreflop => (preflopDone /\ heroCanAct)

\* The override has just fired for a hand that was still sequencing, with an
\* advance call in flight.
C1_Witness ==
  /\ PastPreflop /\ preflopDone /\ heroCanAct
  /\ ~ev.newHand /\ ev.sigs = <<TRUE>>
  /\ visualActionOn \in Positions
  /\ inflight # EmptyBag

\* C2: a step whose advance call was in flight when a new hand was detected
\* changes nothing of the new hand's state when its call completes: after a
\* failed call the visible state is unchanged, after a successful one it is
\* what the response snapshot alone produces.
C2_NoStaleMutation ==
  [][\A c \in BagToSet(inflight) : Stale(c) =>
       /\ AdvanceFails(c) =>
            /\ visualActionOn' = visualActionOn
            /\ foldedPositions' = foldedPositions
            /\ preflopDone' = preflopDone
            /\ heroCanAct' = heroCanAct
       /\ \A resp \in Snapshots : \A tick \in Ticks(resp) :
            AdvanceSucceeds(c, resp, tick) => SameAsSnapshotAlone(resp, tick)]_vars

\* C3: a step that detects no new hand never removes a position from
\* foldedPositions; a step that detects one empties it, so that only the
\* folds of the new snapshot's own action_history are in it afterwards.
C3_FoldedMonotone ==
  [][IF ev'.newHand
     THEN foldedPositions' = FoldedFromHistory(gameState')
     ELSE foldedPositions \subseteq foldedPositions']_vars

\* Within one hand both write paths have added a position.
C3_Witness ==
  /\ ~ev.newHand
  /\ FoldedFromHistory(gameState) # {}
  /\ (stepped \cap foldedPositions) \ FoldedFromHistory(gameState) # {}

\* C4: once preflopDone is true it stays true in every step that detects no
\* new hand.
C4_DoneLatched == [][(preflopDone /\ ~ev'.newHand) => preflopDone']_vars

\* The sequence was complete before the last step, which was an advance call
\* returning or a snapshot of the same hand arriving during preflop.
C4_Witness ==
  /\ preflopDone /\ Preflop
  /\ ~ev.newHand /\ ev.sigs = <<>>
  /\ visualActionOn \in Positions

\* C5: within a hand every step is for a position before the human's, no
\* position is stepped twice, and a position is stepped only when exactly the
\* positions before it have been stepped; human-may-act turns true during
\* preflop only when all positions before the human's have been stepped.
C5_EachOnceInOrder ==
  [][/\ \A t \in timers : TimerFires(t) =>
          /\ t.pos \notin stepped
          /\ stepped = BeforeInOrder(t.pos)
          /\ t.pos \in BeforeInOrder(t.hero)
     /\ (~heroCanAct /\ heroCanAct' /\ gameState'.street = "preflop" /\ ~ev'.newHand)
          => stepped' = BeforeInOrder(gameState'.human_position)]_vars

\* C6: every position with a fold in the rendered snapshot's action_history
\* is in foldedPositions.
C6_HistoryFoldsShown ==
  gameState.present => FoldedFromHistory(gameState) \subseteq foldedPositions

\* A snapshot that triggered the reset reports a fold for the position whose
\* timer is still pending.
C6_Witness ==
  /\ ev.newHand
  /\ \E t \in timers : t.pos \in FoldedFromHistory(gameState) /\ t.pos \notin stepped

C8_OneStepOutstanding == Cardinality(timers) + BagCardinality(inflight) <= 1

\* C9: when the advance call of the current step fails, the highlight stays
\* on the step's position, the sequence is not marked complete and no further
\* callback is scheduled.
C9_FailureHalts ==
  [][\A c \in BagToSet(inflight) :
       (AdvanceFails(c) /\ ~Stale(c) /\ visualActionOn = c.pos /\ ~preflopDone) =>
          /\ visualActionOn' = c.pos
          /\ ~preflopDone'
          /\ timers' = timers]_vars

\* C10: during preflop human-may-act turns from false to true only when the
\* sequence of the current hand has reached the human's position, that is
\* when every position before the human's has been stepped in this hand.
C10_NoEarlyRelease ==
  [][(~heroCanAct /\ heroCanAct' /\ gameState'.street = "preflop")
       => BeforeInOrder(gameState'.human_position) \subseteq stepped']_vars

\* The last value passed to onHeroCanAct during the step just taken
LastSignal(sigs) == sigs[Len(sigs)]

C13_HighlightWaitsForCall ==
  [][/\ \A t \in timers : TimerFires(t) =>
          (visualActionOn = t.pos /\ visualActionOn' = t.pos)
     /\ \A c \in BagToSet(inflight') :
          c.pos \in stepped' => visualActionOn' = c.pos
     /\ \A c \in BagToSet(inflight) :
          (AdvanceFails(c) /\ ~Stale(c)) =>
             visualActionOn' \in {NextPosition(c.pos), NoPosition}]_vars

\* What the end of the step of call c leaves behind
StepFinished(c) ==
  IF NextPosition(c.pos) = gameState.human_position
  THEN /\ preflopDone'
       /\ visualActionOn' = NoPosition
       /\ heroCanAct'
       /\ ev'.sigs # <<>> /\ LastSignal(ev'.sigs) = TRUE
  ELSE /\ visualActionOn' = NextPosition(c.pos)
       /\ preflopDone' = preflopDone
       /\ heroCanAct' = heroCanAct

C15_NeverBackwards ==
  [][(/\ ~ev'.newHand
      /\ visualActionOn' \in Positions
      /\ visualActionOn' # visualActionOn)
       => /\ visualActionOn' \notin stepped
          /\ visualActionOn \in Positions =>
               IndexOf(PREFLOP_ACTION_ORDER, visualActionOn')
                 > IndexOf(PREFLOP_ACTION_ORDER, visualActionOn)]_vars

\* The fold sets the action histories of the snapshots can carry
FoldSets == {FoldedFromHistory(gs) : gs \in Snapshots}

\* C16: on every foldedPositions the program reaches, local fold marking and
\* the merge of history folds are each idempotent, and any two such writes
\* give the same set in either order.
C16_WritesCommute ==
  \A p1 \in Positions, p2 \in Positions, f1 \in FoldSets, f2 \in FoldSets :
    /\ MarkFolded(MarkFolded(foldedPositions, p1), p1) = MarkFolded(foldedPositions, p1)
    /\ MergeFolds(MergeFolds(foldedPositions, f1), f1) = MergeFolds(foldedPositions, f1)
    /\ MarkFolded(MarkFolded(foldedPositions, p1), p2)
         = MarkFolded(MarkFolded(foldedPositions, p2), p1)
    /\ MergeFolds(MergeFolds(foldedPositions, f1), f2)
         = MergeFolds(MergeFolds(foldedPositions, f2), f1)
    /\ MarkFolded(MergeFolds(foldedPositions, f1), p1)
         = MergeFolds(MarkFolded(foldedPositions, p1), f1)

\* One position has been written by both paths in the same hand, next to a
\* position written by its step only.
C16_Witness ==
  /\ ~ev.newHand /\ Preflop
  /\ \E p \in stepped : p \in FoldedFromHistory(gameState) /\ p \in foldedPositions
  /\ \E p \in stepped : p \notin FoldedFromHistory(gameState) /\ p \in foldedPositions

KeyDiffers(gs, tick) ==
  \/ handIdRef.hero # gs.human_position
  \/ handIdRef.villain # gs.villain_position
  \/ handIdRef.id # gs.hand_id
  \/ gs.hand_id = 0 /\ tick

\* C18 as stated: the arrival of a snapshot resets exactly when its seats or
\* hand identifier differ from the last observed ones, and otherwise leaves
\* foldedPositions, the highlight and the flag unchanged and signals no false.
C18_RefreshChangesNothing ==
  [][\A gs \in {gameState'} : \A tick \in Ticks(gs) :
       (inflight' = inflight /\ SnapshotArrives(gs, tick)) =>
         /\ ev'.newHand <=> (handIdRef # CurrentHandId(gs))
         /\ (handIdRef = CurrentHandId(gs)) =>
              /\ foldedPositions' = foldedPositions
              /\ visualActionOn' = visualActionOn
              /\ preflopDone' = preflopDone
              /\ \A i \in 1..Len(ev'.sigs) : ev'.sigs[i] # FALSE]_vars

\* C18 amended: the arrival of a snapshot resets exactly when its key (seats
\* and hand_id, or the clock reading when hand_id is absent) differs from the
\* stored one; otherwise the stored key and the highlight stay, foldedPositions
\* gains exactly the folds of the snapshot's history, the flag is not cleared
\* (it is set only by a street other than preflop) and no false is signalled.
C18_ResetIffKeyDiffers ==
  [][\A gs \in {gameState'} : \A tick \in Ticks(gs) :
       (inflight' = inflight /\ SnapshotArrives(gs, tick)) =>
         /\ ev'.newHand <=> KeyDiffers(gs, tick)
         /\ ~KeyDiffers(gs, tick) =>
              /\ handIdRef' = handIdRef
              /\ visualActionOn' = visualActionOn
              /\ foldedPositions' = foldedPositions \cup FoldedFromHistory(gs)
              /\ preflopDone => preflopDone'
              /\ (preflopDone' /\ ~preflopDone) => gs.street # "preflop"
              /\ \A i \in 1..Len(ev'.sigs) : ev'.sigs[i] # FALSE]_vars

\* A refreshed snapshot of the hand in progress has been rendered while a
\* human in the first seat is waiting (no step ever runs for this human, so
\* the last step was a snapshot arrival).
C18_Witness ==
  /\ gameState.present /\ gameState.hand_id = 1
  /\ gameState.human_position = PREFLOP_ACTION_ORDER[1]
  /\ ~ev.newHand
  /\ visualActionOn = PREFLOP_ACTION_ORDER[1]
  /\ handIdRef = CurrentHandId(gameState)

\* C19: in a hand that stays on preflop and is never detected as new, where
\* scheduled timers eventually fire and advance calls eventually return,
\* human-may-act = true is eventually signalled once a snapshot has been
\* rendered, whatever further snapshots of the hand arrive.
C19_EventuallyReleased == gameState.present ~> heroCanAct

\* The human has been released although snapshots that arrived during a call
\* had started a second step, whose call is still in flight.
C19_Witness ==
  /\ Preflop /\ heroCanAct /\ preflopDone
  /\ visualActionOn = NoPosition
  /\ inflight # EmptyBag
  /\ FoldedFromHistory(gameState) # {}

\* C20: a processComputerActions loop sends a computerAction request only
\* while no startNewGame or resetGame has been called since the loop started.
C20_OldLoopSendsNothing ==
  [][\A k \in 1..MaxInvocations :
       (invocations[k].pc # "request" /\ invocations'[k].pc = "request")
         => invocations'[k].loopStarted = games']_vars

\* C21: once a startNewGame call has stored its state, the response to a
\* computerAction request that was sent before that call (by a
\* processComputerActions loop or by triggerComputerAction) does not replace
\* gameState.
C21_OldResponseDropped ==
  [][/\ \A k \in 1..MaxInvocations :
          (invocations[k].pc = "request" /\ ActionResponds(k, hookGame'))
            => invocations[k].sentAt >= newGameStored
     /\ \A t \in BagToSet(triggers) :
          TriggerResponds(t, hookGame') => t >= newGameStored]_vars

\* C22: within one hand the advance call is made at most once for a position
\* and never for the human's position.
C22_AdvanceAtMostOnce ==
  [][\A t \in timers :
       (inflight' # inflight /\ TimerFires(t)) =>
          /\ t.pos \notin stepped
          /\ t.pos # gameState.human_position]_vars

\* A processComputerActions loop of invocation k has started and not finished
LoopRunning(k) == invocations[k].pc \in {"request", "pause"}

\* C24: processingComputer is true exactly while some processComputerActions
\* loop is running, and isHumanTurn is false while one is.
C24_ProcessingWhileLooping ==
  /\ processingComputer <=> (\E k \in 1..MaxInvocations : LoopRunning(k))
  /\ (\E k \in 1..MaxInvocations : LoopRunning(k)) => ~IsHumanTurn

\* The step calls submitAction
SubmitCalled ==
  \E k \in 1..MaxInvocations :
    invocations'[k].fn = "submitAction" /\ invocations[k].fn # "submitAction"

\* A submitAction call awaits its request
SubmitInFlight(k) == invocations[k].fn = "submitAction" /\ invocations[k].pc = "newGame"

\* C23: a human action is submitted only from a state in which the setup
\* screen is not shown, the hand is not complete, isHumanTurn is true and the
\* last human-may-act value the table signalled is true.
C23_SubmitOnlyWhenReleased ==
  [][SubmitCalled =>
       /\ ~showSetup
       /\ hookGame.present /\ ~hookGame.hand_complete
       /\ IsHumanTurn
       /\ heroCanAct]_vars

\* The human's action is on its way while the table still signals that the
\* human may act, in the first game.
C23_Witness ==
  /\ \E k \in 1..MaxInvocations : SubmitInFlight(k)
  /\ heroCanAct /\ ~showSetup
  /\ games = 1

\* C30: while loading is true a click on the ActionPanel calls no
\* submitAction, and at most one submitAction call awaits its request.
C30_OneSubmitInFlight ==
  [][/\ (loading /\ ActionClicked) => ~SubmitCalled
     /\ Cardinality({k \in 1..MaxInvocations : SubmitInFlight(k)'}) <= 1]_vars

\* The panel is shown, disabled, while the human's action is on its way.
C30_Witness ==
  /\ PanelOffered /\ loading
  /\ \E k \in 1..MaxInvocations : SubmitInFlight(k)

\* C25: a processComputerActions loop sends a further computerAction request
\* only after a response that reported action_taken, a hand that is not
\* complete and a computer player to act, and a pause after which the abort
\* flag is unset; after any other response, after a pause that ends with the
\* flag set, and after a failed request the loop ends.
C25_LoopGoesOnOnlyIf ==
  [][\A k \in 1..MaxInvocations :
       /\ (invocations[k].pc = "request" /\ invocations'[k].pc # "request") =>
            IF /\ ActionResponds(k, hookGame')
               /\ hookGame'.action_taken
               /\ ~hookGame'.hand_complete
               /\ hookGame'.action_on = "computer"
            THEN invocations'[k].pc = "pause"
            ELSE invocations'[k] = Finished
       /\ (invocations[k].pc = "pause" /\ invocations'[k].pc # "pause") =>
            IF abortRef
            THEN invocations'[k] = Finished
            ELSE invocations'[k].pc = "request"
       /\ (invocations[k].pc \notin {"delay", "pause"}) =>
            (invocations'[k].pc = "request" => invocations[k].pc = "request")]_vars

\* A loop pauses before its next request, the abort flag unset.
C25_Witness ==
  \E k \in 1..MaxInvocations :
    /\ invocations[k].pc = "pause"
    /\ hookGame.action_taken /\ ~hookGame.hand_complete /\ hookGame.action_on = "computer"
    /\ ~abortRef

\* The step ends a triggerComputerAction call: its request is no longer awaited
TriggerReturns == BagCardinality(triggers') = BagCardinality(triggers) - 1

\* C26: a call of triggerComputerAction sends one computerAction request and
\* its return sends none; the call ends either with gameState replaced by the
\* response, which it returns, and the error as it was, or with gameState
\* unchanged, the error set and null returned; it never throws.
C26_TriggerOutcome ==
  [][/\ BagCardinality(triggers') > BagCardinality(triggers) =>
          /\ BagCardinality(triggers') = BagCardinality(triggers) + 1
          /\ UNCHANGED <<hookGame, error, invocations>>
     /\ TriggerReturns =>
          /\ invocations' = invocations
          /\ \/ /\ returned' = [outcome |-> "value", value |-> hookGame']
                /\ hookGame' \in ActionResponses
                /\ error' = error
             \/ /\ returned' = [outcome |-> "null", value |-> NoState]
                /\ hookGame' = hookGame
                /\ error']_vars

\* A triggerComputerAction call has just returned null, with the state of the
\* game left as it was and the error set.
C26_Witness ==
  /\ returned.outcome = "null"
  /\ hookGame.present /\ error

\* C27: when the request of a startNewGame, submitAction or resetGame call
\* has been answered, either the response is stored, or gameState is
\* unchanged, the error is set and the call has ended without a pause or a
\* processComputerActions loop of its own; loading is false in both cases.
C27_FailedCallEnds ==
  [][\A k \in 1..MaxInvocations :
       (invocations[k].pc = "newGame" /\ invocations'[k].pc # "newGame") =>
          /\ ~loading'
          /\ \/ /\ hookGame' \in GameResponses
                /\ error' = error
             \/ /\ hookGame' = hookGame
                /\ error'
                /\ invocations'[k] = Finished
                /\ pauses' = pauses
                /\ processingComputer' = processingComputer]_vars

\* The first call, of startNewGame or resetGame, has failed: no state is
\* stored, the error is set and nothing is pending.
C27_Witness ==
  /\ games = 1
  /\ ~hookGame.present /\ error /\ ~loading
  /\ \A k \in 1..MaxInvocations : invocations[k] = NotCalled
  /\ pauses = <<>> /\ ~processingComputer /\ triggers = EmptyBag

\* C28: the configuration passed to onStartGame never has the opponent on
\* the hero's position, and selecting the opponent's position as the hero's
\* moves the opponent to the first of BTN, SB, BB, UTG, MP, CO that is not
\* the hero's.
C28_VillainNeverOnHero ==
  [][/\ gameConfig' # NoConfig =>
          gameConfig'.villain_position # gameConfig'.hero_position
     /\ villainPosition' # heroPosition'
     /\ (heroPosition' # heroPosition /\ heroPosition' = villainPosition) =>
          villainPosition' = IF heroPosition' = "BTN" THEN "SB" ELSE "BTN"]_vars

\* A game was started after the hero took the seat the opponent was on, which
\* put the opponent on BTN.
C28_Witness ==
  /\ gameConfig # NoConfig
  /\ gameConfig.hero_position = "BB"
  /\ gameConfig.villain_position = "BTN"

\* The position after p, clockwise
Clockwise(p) ==
  CHOOSE r \in Positions :
    \E i \in 1..6 : POSITION_ORDER[i] = p /\ POSITION_ORDER[IF i = 6 THEN 1 ELSE i + 1] = r

\* C29: in every render of a game the human's position is at seat 0, each
\* seat after it holds the position that follows the one of the seat before
\* in BTN, SB, BB, UTG, MP, CO taken as a circle, and the six seats hold the
\* six positions.
C29_SeatsRotateFromHuman ==
  gameState.present =>
    /\ allSeats[0].position = gameState.human_position
    /\ \A i \in 1..5 : allSeats[i].position = Clockwise(allSeats[i - 1].position)
    /\ {allSeats[i].position : i \in SeatIndices} = Positions
    /\ Cardinality({allSeats[i].position : i \in SeatIndices}) = 6

\* The table is drawn for a human on CO: BTN is at seat 1 and UTG at seat 4.
C29_Witness ==
  /\ gameState.present /\ gameState.human_position = "CO"
  /\ allSeats[1].position = "BTN"
  /\ allSeats[4].position = "UTG"
====
